---- MODULE Spec2Model ----
(***************************************************************************)
(* The staleness-checked render cache of src/src/article.rs:               *)
(* get_article / render_article (HTML level, ARTICLE_CACHE) layered on     *)
(* get_metadata / prerender_article (tree level, AST_CACHE), deduplicated  *)
(* by the in-flight set BUSY_ASTS.  Every access to a shared table and     *)
(* every await is one step of a task, so that tasks interleave as the      *)
(* multi-threaded runtime lets them.                                       *)
(***************************************************************************)
EXTENDS Integers, Sequences, FiniteSets, TLC

\* Number of file writes the environment performs (each advances the clock).
MaxTime == 1
\* Number of calls the request layer issues in one behaviour.
MaxCalls == 3
\* Number of half throttle windows the clock of the throttle moves on.
MaxTicks == 3

\* the request tasks that run concurrently
Tasks == {"t1", "t2"}
Paths == {"a.md"}

\* What a source file contains, as far as the pipeline can tell:
\*   plain   - renders in both stages
\*   code    - renders, and contains a code block
\*   failA   - the converter rejects the source (Stage A exits non-zero)
\*   badMeta - Stage A succeeds, the front matter does not deserialize
\*   failB   - Stage A succeeds, the converter rejects the tree (Stage B)
Kinds == {"plain", "code", "failA", "badMeta", "failB"}
\*   codeFailB - as failB, and contains a code block
\*   embed   - renders; contains a code block of class search
StageKinds == {"plain", "failB", "codeFailB"}
\* Calendar dates are day numbers.  NaiveDate::default() is 1970-01-01.
Unset == 0
\* the date a dated front matter gives for `created` and `updated`
FrontDate == 1
\* SystemTime: the clock starts at 0; Epoch is a time on 1970-01-01
Epoch == 0 - 1
\* search() walks the disk when the last walk is more than this many seconds ago
ThrottleWindow == 1800
\* LAST_REAL_SEARCH starts this many seconds before the process does
StartBehind == 3600
\* ArticleManager::default() starts last_full_scan this many seconds back
ManagerBehind == 36000
\* force_rescan puts last_full_scan this many seconds back
ForcedBehind == 60 * 60 * 60

\* DateTime::<Local>::from(t).date_naive()
DateNaive(t) == t + 1

\* The front matter of a document, as ArticleMeta deserializes it (the fields
\* the cache and the search read).  A title is a sequence of characters, the
\* tags are taken as a set.
\*   Published - ready, visible, with both dates
\*   Draft     - `ready` left at its default, false
\*   Undated   - neither `created` nor `updated`
Published ==
    [title |-> <<"a">>, tags |-> {}, hidden |-> FALSE, ready |-> TRUE,
     created |-> FrontDate, updated |-> FrontDate]
Draft == [Published EXCEPT !.ready = FALSE]
Undated == [Published EXCEPT !.created = Unset, !.updated = Unset]

---------------------------------------------------------------------------
\* Option<T> and Result<T, ArticleError>
None == <<>>
Some(x) == <<x>>
IsSome(o) == o # <<>>
Unwrap(o) == o[1]

Ok(v) == [ok |-> TRUE, val |-> <<v>>, err |-> ""]
Err(e) == [ok |-> FALSE, val |-> <<>>, err |-> e]
Value(r) == r.val[1]

\* Option::ok_or
OkOr(o, e) == IF IsSome(o) THEN Ok(Unwrap(o)) ELSE Err(e)

---------------------------------------------------------------------------
VARIABLES
    now,            \* SystemTime::now()
    disk,           \* path -> Option<[ver, born, kind, front]>; ver is the
                    \* modification time, born the creation time
    AST_CACHE,      \* path -> Option<[meta, ast, time]>
    ARTICLE_CACHE,  \* path -> Option<[content, meta, rendered_at]>
    BUSY_ASTS,      \* set of paths
    task,           \* task -> its call, position and locals
    calls,          \* calls issued so far (history)
    instant,        \* Instant::now(), in seconds
    LAST_REAL_SEARCH, \* the Instant of the last disk walk
    last_full_scan, \* the Instant in the ArticleManager that main.rs manages
    forced          \* force_rescan has been called and no search() has
                    \* tested the throttle since (history)

vars == <<now, disk, AST_CACHE, ARTICLE_CACHE, BUSY_ASTS, task, calls,
          instant, LAST_REAL_SEARCH, last_full_scan, forced>>

\* the state of search()'s throttle
throttle == <<instant, LAST_REAL_SEARCH, last_full_scan, forced>>

\* locals of a task that has no call in progress.  ranA, ranB, fail and index
\* are history: the call has spawned the Stage A / Stage B converter; what failed
\* in the call ("stageA", "meta", "stageB") if anything did; how search() got its
\* articles ("walk" or "cache") and which.  held is the set of locks the task
\* holds; due is what the throttle test of search() gave, at the Instant `at`;
\* denied are the directories that read_dir failed on in the walk (history).
Idle ==
    [pc |-> "idle", kind |-> "", path |-> "",
     ga_mtime |-> None, ga_cached |-> None,
     gm_mtime |-> None, gm_cached |-> None,
     ast |-> None, meta |-> None, html |-> None,
     render |-> "none", result |-> None,
     ranA |-> FALSE, ranB |-> FALSE, fail |-> "none",
     search |-> None, index |-> None,
     held |-> {}, due |-> FALSE, at |-> None, denied |-> {}]

---------------------------------------------------------------------------
\* a file as a save leaves it: the editor replaces the file, so that it is
\* created at the time it is modified
FileOf(time, k, front) == [ver |-> time, born |-> time, kind |-> k, front |-> front]
File(time, k) == FileOf(time, k, Published)

\* tokio::fs::metadata(path).await.and_then(|m| m.modified()).ok()
Modified(p) == IF IsSome(disk[p]) THEN Some(Unwrap(disk[p]).ver) ELSE None

\* pandoc -f markdown -t json <path>, then Pandoc::from_json
PandocToJson(file) ==
    IF ~IsSome(file) \/ Unwrap(file).kind = "failA"
    THEN Err("PandocFailed")
    ELSE Ok([ver |-> Unwrap(file).ver, kind |-> Unwrap(file).kind,
             front |-> Unwrap(file).front, always_rerender |-> FALSE])

\* apply_filters: frag_search_results marks the tree when it sees a code block
ApplyFilters(ast) ==
    [ast EXCEPT !.always_rerender = (ast.kind \in {"code", "codeFailB", "embed"})]

\* ArticleMeta::try_from(&Pandoc)
MetaTryFrom(ast) ==
    IF ast.kind = "badMeta"
    THEN Err("JsonError")
    ELSE Ok([title |-> ast.front.title, tags |-> ast.front.tags,
             hidden |-> ast.front.hidden, ready |-> ast.front.ready,
             created |-> ast.front.created, updated |-> ast.front.updated,
             always_rerender |-> ast.always_rerender])

\* prerender_article without the back-fill of lines 214-219
Backfill_Skipped(meta, fsmeta) == meta

\* prerender_article, lines 205-219: dates the front matter left unset are taken
\* from the file's timestamps, and from the clock when the file cannot be read
Backfill(meta, fsmeta) ==
    LET disk_time == IF IsSome(fsmeta) THEN Unwrap(fsmeta).ver ELSE now
        created_time == IF IsSome(fsmeta) THEN Unwrap(fsmeta).born ELSE now
    IN  [meta EXCEPT
            !.updated = IF meta.updated = Unset THEN DateNaive(disk_time) ELSE meta.updated,
            !.created = IF meta.created = Unset THEN DateNaive(created_time) ELSE meta.created]

\* pandoc -f json -t html
PandocToHtml(ast) ==
    IF ast.kind \in {"failB", "codeFailB"}
    THEN Err("PandocFailed")
    ELSE Ok([html_of |-> ast.ver])

\* get_article that renders on every call, whatever is cached
GetArticleMatch_AlwaysRender(disk_modified_time, cached) ==
    IF ~IsSome(disk_modified_time) THEN "NoArticle" ELSE "Render"

\* get_article with the older policy: an unreadable file is served from the cache
GetArticleMatch_ServeCached(disk_modified_time, cached) ==
    IF ~IsSome(disk_modified_time)
    THEN IF IsSome(cached) THEN "Cached" ELSE "NoArticle"
    ELSE IF /\ IsSome(cached)
            /\ Unwrap(cached).rendered_at >= Unwrap(disk_modified_time)
            /\ ~Unwrap(cached).meta.always_rerender
         THEN "Cached"
         ELSE "Render"

\* get_article with `>` for `>=` in the guard of line 99
GetArticleMatch_Strict(disk_modified_time, cached) ==
    IF ~IsSome(disk_modified_time)
    THEN "NoArticle"
    ELSE IF /\ IsSome(cached)
            /\ Unwrap(cached).rendered_at > Unwrap(disk_modified_time)
            /\ ~Unwrap(cached).meta.always_rerender
         THEN "Cached"
         ELSE "Render"

\* the match of get_article, lines 96-103
GetArticleMatch(disk_modified_time, cached) ==
    IF ~IsSome(disk_modified_time)
    THEN "NoArticle"
    ELSE IF /\ IsSome(cached)
            /\ Unwrap(cached).rendered_at >= Unwrap(disk_modified_time)
            /\ ~Unwrap(cached).meta.always_rerender
         THEN "Cached"
         ELSE "Render"

\* get_metadata with `>` for `>=` in the guard of line 156
GetMetadataMatch_Strict(disk_modified_time, cached) ==
    IF ~IsSome(disk_modified_time)
    THEN "NoArticle"
    ELSE IF /\ IsSome(cached)
            /\ Unwrap(cached).time > Unwrap(disk_modified_time)
            /\ ~Unwrap(cached).meta.always_rerender
         THEN "Cached"
         ELSE "Render"

\* the match of get_metadata, lines 153-160
GetMetadataMatch(disk_modified_time, cached) ==
    IF ~IsSome(disk_modified_time)
    THEN "NoArticle"
    ELSE IF /\ IsSome(cached)
            /\ Unwrap(cached).time >= Unwrap(disk_modified_time)
            /\ ~Unwrap(cached).meta.always_rerender
         THEN "Cached"
         ELSE "Render"

\* get_article without the fallback of line 105
GetArticleReturn_Propagate(cached, r) == r

\* get_article, lines 103-106: the outcome of render_article, else the cached entry
GetArticleReturn(cached, r) ==
    IF r.ok THEN r ELSE OkOr(cached, r.err)

\* what get_metadata and prerender_article hand out of a tree-cache entry
MetaAst(cached) ==
    IF IsSome(cached)
    THEN Some([meta |-> Unwrap(cached).meta, ast |-> Unwrap(cached).ast])
    ELSE None

\* get_metadata, lines 160-163: the outcome of prerender_article, else the cached tree
GetMetadataReturn(cached, r) ==
    IF r.ok THEN r ELSE OkOr(MetaAst(cached), r.err)

---------------------------------------------------------------------------
Init ==
    /\ now = 0
    /\ disk \in [Paths -> {None} \cup {Some(File(0, k)) : k \in Kinds}]
    /\ AST_CACHE = [p \in Paths |-> None]
    /\ ARTICLE_CACHE = [p \in Paths |-> None]
    /\ BUSY_ASTS = {}
    /\ task = [t \in Tasks |-> Idle]
    /\ calls = 0
    /\ instant = 0
    /\ LAST_REAL_SEARCH = instant - StartBehind
    /\ last_full_scan = instant - ManagerBehind
    /\ forced = FALSE

---------------------------------------------------------------------------
\* A request handler calls get_article(p) (k = "article"); find_articles calls
\* get_metadata(p) (k = "meta").
Call(t, k, p) ==
    /\ task[t].pc \in {"idle", "done", "dropped", "dropped_render"}
    /\ calls < MaxCalls
    /\ calls' = calls + 1
    /\ task' = [task EXCEPT ![t] =
                    [Idle EXCEPT !.pc = IF k = "article" THEN "ga_stat" ELSE "gm_stat",
                                 !.kind = k, !.path = p]]
    /\ UNCHANGED <<now, disk, AST_CACHE, ARTICLE_CACHE, BUSY_ASTS, throttle>>

\* the call of task record tk returns res to its caller
Return(tk, res, rendered) ==
    [tk EXCEPT !.pc = "done", !.result = Some(res), !.render = rendered,
               !.gm_mtime = None, !.ast = None, !.meta = None, !.html = None]

\* get_metadata has returned gm: find_articles takes it as it is; render_article
\* (line 111) hands an error on to get_article, else spawns Stage B on the tree
\* (line 115)
AfterMetadata(tk, gm) ==
    IF tk.kind = "meta"
    THEN Return(tk, gm, "none")
    ELSE IF ~gm.ok
         THEN Return(tk, GetArticleReturn(tk.ga_cached, Err(gm.err)), "err")
         ELSE [tk EXCEPT !.pc = "stageB", !.ranB = TRUE,
                         !.ast = Some(Value(gm).ast), !.meta = Some(Value(gm).meta),
                         !.gm_mtime = None]

\* get_article, lines 91-94
GaStat(t) ==
    /\ task[t].pc = "ga_stat"
    /\ task' = [task EXCEPT ![t].pc = "ga_match", ![t].ga_mtime = Modified(task[t].path)]
    /\ UNCHANGED <<now, disk, AST_CACHE, ARTICLE_CACHE, BUSY_ASTS, calls, throttle>>

\* get_article, lines 95-103
GaMatch(t) ==
    LET tk == task[t]
        cached == ARTICLE_CACHE[tk.path]
        arm == GetArticleMatch(tk.ga_mtime, cached)
    IN  /\ tk.pc = "ga_match"
        /\ task' = [task EXCEPT ![t] =
                CASE arm = "NoArticle" -> Return(tk, Err("NoArticle"), "none")
                  [] arm = "Cached" -> Return(tk, Ok(Unwrap(cached)), "none")
                  [] OTHER -> [tk EXCEPT !.pc = "gm_stat", !.ga_cached = cached]]
        /\ UNCHANGED <<now, disk, AST_CACHE, ARTICLE_CACHE, BUSY_ASTS, calls, throttle>>

\* get_metadata, lines 148-151
GmStat(t) ==
    /\ task[t].pc = "gm_stat"
    /\ task' = [task EXCEPT ![t].pc = "gm_match", ![t].gm_mtime = Modified(task[t].path)]
    /\ UNCHANGED <<now, disk, AST_CACHE, ARTICLE_CACHE, BUSY_ASTS, calls, throttle>>

\* get_metadata, lines 152-160
GmMatch(t) ==
    LET tk == task[t]
        cached == AST_CACHE[tk.path]
        arm == GetMetadataMatch(tk.gm_mtime, cached)
    IN  /\ tk.pc = "gm_match"
        /\ task' = [task EXCEPT ![t] =
                CASE arm = "NoArticle" -> AfterMetadata(tk, Err("NoArticle"))
                  [] arm = "Cached" -> AfterMetadata(tk, Ok(Unwrap(MetaAst(cached))))
                  [] OTHER -> [tk EXCEPT !.pc = "pr_busy", !.gm_cached = cached]]
        /\ UNCHANGED <<now, disk, AST_CACHE, ARTICLE_CACHE, BUSY_ASTS, calls, throttle>>

\* prerender_article, line 170: BUSY_ASTS.insert; when the path was not yet in the
\* set the Stage A converter is spawned (line 178)
PrBusy(t) ==
    LET tk == task[t]
    IN  /\ tk.pc = "pr_busy"
        /\ IF tk.path \in BUSY_ASTS
           THEN /\ task' = [task EXCEPT ![t].pc = "pr_skip"]
                /\ UNCHANGED BUSY_ASTS
           ELSE /\ BUSY_ASTS' = BUSY_ASTS \cup {tk.path}
                /\ task' = [task EXCEPT ![t].pc = "stageA", ![t].ranA = TRUE]
        /\ UNCHANGED <<now, disk, AST_CACHE, ARTICLE_CACHE, calls, throttle>>

\* prerender_article that runs Stage A although the path is in flight
PrSkip_Rerender(t) ==
    /\ task[t].pc = "pr_skip"
    /\ task' = [task EXCEPT ![t].pc = "stageA", ![t].ranA = TRUE]
    /\ UNCHANGED <<now, disk, AST_CACHE, ARTICLE_CACHE, BUSY_ASTS, calls, throttle>>

\* prerender_article, lines 172-175: the path is in flight, take what is cached
PrSkip(t) ==
    LET tk == task[t]
        r == OkOr(MetaAst(AST_CACHE[tk.path]), "NoArticle")
    IN  /\ tk.pc = "pr_skip"
        /\ task' = [task EXCEPT ![t] = AfterMetadata(tk, GetMetadataReturn(tk.gm_cached, r))]
        /\ UNCHANGED <<now, disk, AST_CACHE, ARTICLE_CACHE, BUSY_ASTS, calls, throttle>>

\* prerender_article, lines 178-201: the converter reads the file; the filters and
\* the metadata extraction follow.  An error leaves the function through `?`.
StageA(t) ==
    LET tk == task[t]
        json == PandocToJson(disk[tk.path])
        ast == ApplyFilters(Value(json))
        meta == MetaTryFrom(ast)
        failed == IF ~json.ok THEN Err(json.err) ELSE Err(meta.err)
    IN  /\ tk.pc = "stageA"
        /\ IF json.ok /\ meta.ok
           THEN task' = [task EXCEPT ![t].pc = "pr_install", ![t].ast = Some(ast),
                                     ![t].meta = Some(Value(meta))]
           ELSE task' = [task EXCEPT ![t] =
                     AfterMetadata([tk EXCEPT !.fail = IF json.ok THEN "meta" ELSE "stageA"],
                                   GetMetadataReturn(tk.gm_cached, failed))]
        /\ UNCHANGED <<now, disk, AST_CACHE, ARTICLE_CACHE, BUSY_ASTS, calls, throttle>>

\* prerender_article, lines 203-223
PrInstall(t) ==
    LET tk == task[t]
        meta == Backfill(Unwrap(tk.meta), disk[tk.path])
    IN  /\ tk.pc = "pr_install"
        /\ AST_CACHE' = [AST_CACHE EXCEPT ![tk.path] =
                Some([meta |-> meta, ast |-> Unwrap(tk.ast), time |-> now])]
        /\ task' = [task EXCEPT ![t].pc = "pr_remove", ![t].meta = Some(meta)]
        /\ UNCHANGED <<now, disk, ARTICLE_CACHE, BUSY_ASTS, calls, throttle>>

\* prerender_article with line 224 removing from the wrong table
PrRemove_WrongTable(t) ==
    LET tk == task[t]
    IN  /\ tk.pc = "pr_remove"
        /\ AST_CACHE' = [AST_CACHE EXCEPT ![tk.path] = None]
        /\ task' = [task EXCEPT ![t] =
                AfterMetadata(tk, Ok([meta |-> Unwrap(tk.meta), ast |-> Unwrap(tk.ast)]))]
        /\ UNCHANGED <<now, disk, ARTICLE_CACHE, BUSY_ASTS, calls, throttle>>

\* prerender_article, lines 224-225
PrRemove(t) ==
    LET tk == task[t]
    IN  /\ tk.pc = "pr_remove"
        /\ BUSY_ASTS' = BUSY_ASTS \ {tk.path}
        /\ task' = [task EXCEPT ![t] =
                AfterMetadata(tk, Ok([meta |-> Unwrap(tk.meta), ast |-> Unwrap(tk.ast)]))]
        /\ UNCHANGED <<now, disk, AST_CACHE, ARTICLE_CACHE, calls, throttle>>

\* render_article, lines 115-135
StageB(t) ==
    LET tk == task[t]
        html == PandocToHtml(Unwrap(tk.ast))
    IN  /\ tk.pc = "stageB"
        /\ IF html.ok
           THEN task' = [task EXCEPT ![t].pc = "ra_install", ![t].html = Some(Value(html))]
           ELSE task' = [task EXCEPT ![t] =
                     Return([tk EXCEPT !.fail = "stageB"],
                            GetArticleReturn(tk.ga_cached, Err(html.err)), "err")]
        /\ UNCHANGED <<now, disk, AST_CACHE, ARTICLE_CACHE, BUSY_ASTS, calls, throttle>>

\* render_article, lines 137-144
RaInstall(t) ==
    LET tk == task[t]
        article == [content |-> Unwrap(tk.html), meta |-> Unwrap(tk.meta), rendered_at |-> now]
    IN  /\ tk.pc = "ra_install"
        /\ ARTICLE_CACHE' = [ARTICLE_CACHE EXCEPT ![tk.path] = Some(article)]
        /\ task' = [task EXCEPT ![t] = Return(tk, Ok(article), "ok")]
        /\ UNCHANGED <<now, disk, AST_CACHE, BUSY_ASTS, calls, throttle>>

---------------------------------------------------------------------------
\* The environment: an editor saves a file (its modification time is the new
\* clock value) or removes it.
WriteDoc(p, k, front) ==
    /\ now < MaxTime
    /\ now' = now + 1
    /\ disk' = [disk EXCEPT ![p] = Some(FileOf(now + 1, k, front))]
    /\ UNCHANGED <<AST_CACHE, ARTICLE_CACHE, BUSY_ASTS, task, calls, throttle>>

WriteFile(p, k) == WriteDoc(p, k, Published)

DeleteFile(p) ==
    /\ IsSome(disk[p])
    /\ disk' = [disk EXCEPT ![p] = None]
    /\ UNCHANGED <<now, AST_CACHE, ARTICLE_CACHE, BUSY_ASTS, task, calls, throttle>>

\* The future of a call is dropped at an await (the request is abandoned): the
\* awaits are those of the file metadata (lines 91, 148, 203) and of the two
\* spawn_blocking converters (lines 135, 199).
Abandon(t) ==
    /\ task[t].pc \in {"ga_stat", "ga_match", "gm_stat", "gm_match",
                       "stageA", "pr_install", "stageB", "ra_install"}
    /\ task' = [task EXCEPT ![t].pc = IF task[t].pc \in {"stageA", "pr_install"}
                                      THEN "dropped_render"
                                      ELSE "dropped"]
    /\ UNCHANGED <<now, disk, AST_CACHE, ARTICLE_CACHE, BUSY_ASTS, calls, throttle>>

Step(t) ==
    \/ GaStat(t)
    \/ GaMatch(t)
    \/ GmStat(t)
    \/ GmMatch(t)
    \/ PrBusy(t)
    \/ PrSkip(t)
    \/ StageA(t)
    \/ PrInstall(t)
    \/ PrRemove(t)
    \/ StageB(t)
    \/ RaInstall(t)

Next ==
    \/ \E t \in Tasks, p \in Paths : Call(t, "article", p)
    \/ \E t \in Tasks : Step(t)
    \/ \E p \in Paths, k \in Kinds : WriteFile(p, k)
    \/ \E p \in Paths : DeleteFile(p)

Spec == Init /\ [][Next]_vars

\* the same program when requests may be abandoned
NextCancel ==
    \/ Next
    \/ \E t \in Tasks : Abandon(t)

SpecCancel == Init /\ [][NextCancel]_vars

---------------------------------------------------------------------------
\* search() and find_articles.  A path is the sequence of its components.

\* Path::starts_with
StartsWith(p, base) == Len(base) <= Len(p) /\ SubSeq(p, 1, Len(base)) = base

\* p.strip_prefix("articles").unwrap_or(&p)
StripPrefix(p) == IF p # <<>> /\ Head(p) = "articles" THEN Tail(p) ELSE p

\* std::ops::Bound
Unbounded == [bound |-> "Unbounded", at |-> 0]
Included(d) == [bound |-> "Included", at |-> d]
Excluded(d) == [bound |-> "Excluded", at |-> d]

\* RangeBounds::contains of a (Bound, Bound) pair
RangeContains(range, x) ==
    /\ CASE range[1].bound = "Included" -> range[1].at <= x
         [] range[1].bound = "Excluded" -> range[1].at < x
         [] OTHER -> TRUE
    /\ CASE range[2].bound = "Included" -> x <= range[2].at
         [] range[2].bound = "Excluded" -> x < range[2].at
         [] OTHER -> TRUE

\* str::contains
StrContains(str, pat) ==
    \E i \in 1 .. (Len(str) + 1) :
        /\ i + Len(pat) - 1 <= Len(str)
        /\ SubSeq(str, i, i + Len(pat) - 1) = pat

\* Ord::cmp of dates, and of strings (lexicographic by character)
IntCmp(l, r) == IF l < r THEN 0 - 1 ELSE IF l > r THEN 1 ELSE 0

CharOrd == ("a" :> 1) @@ ("b" :> 2)

RECURSIVE StrCmp(_, _)
StrCmp(l, r) ==
    IF l = <<>> /\ r = <<>> THEN 0
    ELSE IF l = <<>> THEN 0 - 1
    ELSE IF r = <<>> THEN 1
    ELSE IF Head(l) # Head(r) THEN IntCmp(CharOrd[Head(l)], CharOrd[Head(r)])
    ELSE StrCmp(Tail(l), Tail(r))

SortTypes == {"CreateAsc", "CreateDesc", "UpdateAsc", "UpdateDesc", "NameAsc", "NameDesc"}

\* SortType::sort_fn with UpdateDesc comparing the wrong way round
SortFn_UpdateSwapped(sort_type, l, r) ==
    CASE sort_type = "CreateAsc" -> IntCmp(l.meta.created, r.meta.created)
      [] sort_type = "CreateDesc" -> IntCmp(r.meta.created, l.meta.created)
      [] sort_type = "UpdateAsc" -> IntCmp(l.meta.updated, r.meta.updated)
      [] sort_type = "UpdateDesc" -> IntCmp(l.meta.updated, r.meta.updated)
      [] sort_type = "NameAsc" -> StrCmp(l.meta.title, r.meta.title)
      [] sort_type = "NameDesc" -> StrCmp(r.meta.title, l.meta.title)

\* SortType::sort_fn, lines 262-275
SortFn(sort_type, l, r) ==
    CASE sort_type = "CreateAsc" -> IntCmp(l.meta.created, r.meta.created)
      [] sort_type = "CreateDesc" -> IntCmp(r.meta.created, l.meta.created)
      [] sort_type = "UpdateAsc" -> IntCmp(l.meta.updated, r.meta.updated)
      [] sort_type = "UpdateDesc" -> IntCmp(r.meta.updated, l.meta.updated)
      [] sort_type = "NameAsc" -> StrCmp(l.meta.title, r.meta.title)
      [] sort_type = "NameDesc" -> StrCmp(r.meta.title, l.meta.title)

\* slice::sort_by is a stable sort: x goes behind every element that does not
\* compare greater than it
RECURSIVE Insert(_, _, _)
Insert(sort_type, sorted, x) ==
    IF sorted = <<>> THEN <<x>>
    ELSE IF SortFn(sort_type, x, Head(sorted)) < 0 THEN <<x>> \o sorted
    ELSE <<Head(sorted)>> \o Insert(sort_type, Tail(sorted), x)

RECURSIVE SortBy(_, _)
SortBy(sort_type, articles) ==
    IF articles = <<>> THEN <<>>
    ELSE Insert(sort_type, SortBy(sort_type, SubSeq(articles, 1, Len(articles) - 1)),
                articles[Len(articles)])

\* Search::default()
DefaultSearch ==
    [search_path |-> <<>>, exclude_paths |-> {}, tags |-> {},
     created |-> <<Unbounded, Unbounded>>, updated |-> <<Unbounded, Unbounded>>,
     title_filter |-> None, sort_type |-> "CreateDesc", limit |-> None]

\* the closure of articles.retain with `any` for `all` in the tag test
Retained_AnyTag(search, article) ==
    /\ RangeContains(search.created, article.created)
    /\ RangeContains(search.updated, article.updated)
    /\ ~article.hidden
    /\ (search.tags = {} \/ \E t \in search.tags : t \in article.tags)
    /\ StrContains(article.title,
                   IF IsSome(search.title_filter) THEN Unwrap(search.title_filter) ELSE <<>>)

\* the closure of articles.retain without the test of `hidden`
Retained_Hidden(search, article) ==
    /\ RangeContains(search.created, article.created)
    /\ RangeContains(search.updated, article.updated)
    /\ \A t \in search.tags : t \in article.tags
    /\ StrContains(article.title,
                   IF IsSome(search.title_filter) THEN Unwrap(search.title_filter) ELSE <<>>)

\* the closure of articles.retain, lines 72-80
Retained(search, article) ==
    /\ RangeContains(search.created, article.created)
    /\ RangeContains(search.updated, article.updated)
    /\ ~article.hidden
    /\ \A t \in search.tags : t \in article.tags
    /\ StrContains(article.title,
                   IF IsSome(search.title_filter) THEN Unwrap(search.title_filter) ELSE <<>>)

\* search(), lines 72-87: retain, sort, strip the prefix of the paths
SearchResult(search, articles) ==
    LET Keep(a) == Retained(search, a.meta)
        sorted == SortBy(search.sort_type, SelectSeq(articles, Keep))
    IN  [i \in 1 .. Len(sorted) |->
            [path |-> StripPrefix(sorted[i].path), meta |-> sorted[i].meta]]

\* the orders in which the elements of a set can come
Orderings(S) ==
    {seq \in [1 .. Cardinality(S) -> S] : \A i, j \in 1 .. Cardinality(S) : seq[i] = seq[j] => i = j}

\* get_metadata whose prerender_article renders a path that is in flight
GetMetadataRun_IgnoreBusy(p, cache, busy) ==
    LET cached == cache[p]
        arm == GetMetadataMatch(Modified(p), cached)
        json == PandocToJson(disk[p])
        ast == ApplyFilters(Value(json))
        meta == MetaTryFrom(ast)
        rendered == json.ok /\ meta.ok
        entry == [meta |-> Backfill(Value(meta), disk[p]), ast |-> ast]
        pr == IF rendered THEN Ok(entry)
              ELSE IF json.ok THEN Err(meta.err) ELSE Err(json.err)
    IN  CASE arm = "NoArticle" ->
                [res |-> Err("NoArticle"), cache |-> cache, busy |-> busy]
          [] arm = "Cached" ->
                [res |-> Ok(Unwrap(MetaAst(cached))), cache |-> cache, busy |-> busy]
          [] OTHER ->
                [res |-> GetMetadataReturn(cached, pr),
                 cache |-> IF rendered
                           THEN [cache EXCEPT ![p] =
                                    Some([meta |-> entry.meta, ast |-> ast, time |-> now])]
                           ELSE cache,
                 busy |-> IF ~rendered THEN busy \cup {p} ELSE busy]

\* get_metadata run to its end by one task with nothing in between (as
\* find_articles awaits it), on tree cache `cache` and in-flight set `busy`:
\* what it returns and what it leaves in the two.
GetMetadataRun(p, cache, busy) ==
    LET cached == cache[p]
        arm == GetMetadataMatch(Modified(p), cached)
        json == PandocToJson(disk[p])
        ast == ApplyFilters(Value(json))
        meta == MetaTryFrom(ast)
        rendered == json.ok /\ meta.ok
        entry == [meta |-> Backfill(Value(meta), disk[p]), ast |-> ast]
        pr == IF p \in busy THEN OkOr(MetaAst(cached), "NoArticle")
              ELSE IF rendered THEN Ok(entry)
              ELSE IF json.ok THEN Err(meta.err) ELSE Err(json.err)
    IN  CASE arm = "NoArticle" ->
                [res |-> Err("NoArticle"), cache |-> cache, busy |-> busy]
          [] arm = "Cached" ->
                [res |-> Ok(Unwrap(MetaAst(cached))), cache |-> cache, busy |-> busy]
          [] OTHER ->
                [res |-> GetMetadataReturn(cached, pr),
                 cache |-> IF p \notin busy /\ rendered
                           THEN [cache EXCEPT ![p] =
                                    Some([meta |-> entry.meta, ast |-> ast, time |-> now])]
                           ELSE cache,
                 busy |-> IF p \notin busy /\ ~rendered THEN busy \cup {p} ELSE busy]

\* Path::is_file, Path::is_dir and the entries of a directory; every file of the
\* tree has the extension md
IsFile(path) == path \in DOMAIN disk /\ IsSome(disk[path])
FilesUnder(path) ==
    {q \in DOMAIN disk : IsSome(disk[q]) /\ Len(q) > Len(path) /\ StartsWith(q, path)}
IsDir(path) == FilesUnder(path) # {}

\* read_dir(path): the entries of the directory in the order the file system
\* lists them, which is the order of their first files in ord
RECURSIVE ReadDir(_, _)
ReadDir(path, ord) ==
    IF ord = <<>> THEN <<>>
    ELSE LET rest == ReadDir(path, Tail(ord))
             child == SubSeq(Head(ord), 1, Len(path) + 1)
         IN  IF Head(ord) \notin FilesUnder(path) THEN rest
             ELSE <<child>> \o SelectSeq(rest, LAMBDA c : c # child)

\* find_articles, lines 35-56; read_dir fails on the directories in `denied`.
\* A file that get_metadata does not resolve is not a directory, and gives
\* nothing (line 45).
RECURSIVE FindArticles(_, _, _, _, _)
RECURSIVE FindChildren_Abort(_, _, _, _, _)
RECURSIVE FindChildren(_, _, _, _, _)
FindArticles(path, ord, denied, cache, busy) ==
    LET gm == GetMetadataRun(path, cache, busy)
    IN  IF IsFile(path) /\ gm.res.ok
        THEN [ok |-> TRUE, out |-> <<[path |-> path, meta |-> Value(gm.res).meta]>>,
              cache |-> gm.cache, busy |-> gm.busy]
        ELSE IF ~IsDir(path)
        THEN [ok |-> TRUE, out |-> <<>>,
              cache |-> IF IsFile(path) THEN gm.cache ELSE cache,
              busy |-> IF IsFile(path) THEN gm.busy ELSE busy]
        ELSE IF path \in denied
        THEN [ok |-> FALSE, out |-> <<>>, cache |-> cache, busy |-> busy]
        ELSE FindChildren(ReadDir(path, ord), ord, denied, cache, busy)

\* the loop of find_articles with `?` on the child's result for `else continue`
FindChildren_Abort(children, ord, denied, cache, busy) ==
    IF children = <<>> THEN [ok |-> TRUE, out |-> <<>>, cache |-> cache, busy |-> busy]
    ELSE LET child == FindArticles(Head(children), ord, denied, cache, busy)
             rest == FindChildren_Abort(Tail(children), ord, denied, child.cache, child.busy)
         IN  IF ~child.ok THEN child
             ELSE [ok |-> rest.ok, out |-> child.out \o rest.out,
                   cache |-> rest.cache, busy |-> rest.busy]

\* find_articles, lines 49-54: the loop over the entries of a directory; a child
\* that gives an error is passed over
FindChildren(children, ord, denied, cache, busy) ==
    IF children = <<>> THEN [ok |-> TRUE, out |-> <<>>, cache |-> cache, busy |-> busy]
    ELSE LET child == FindArticles(Head(children), ord, denied, cache, busy)
             rest == FindChildren(Tail(children), ord, denied, child.cache, child.busy)
         IN  [ok |-> TRUE, out |-> (IF child.ok THEN child.out ELSE <<>>) \o rest.out,
              cache |-> rest.cache, busy |-> rest.busy]

\* a request handler calls search(&search)
SearchCall(t, search) ==
    /\ task[t].pc = "idle"
    /\ calls < MaxCalls
    /\ calls' = calls + 1
    /\ task' = [task EXCEPT ![t] =
                    [Idle EXCEPT !.pc = "s_lock", !.kind = "search", !.search = Some(search)]]
    /\ UNCHANGED <<now, disk, AST_CACHE, ARTICLE_CACHE, BUSY_ASTS, throttle>>

\* search() taking the lock although another task holds it
SearchLock_NoMutex(t) ==
    /\ task[t].pc = "s_lock"
    /\ task' = [task EXCEPT ![t].pc = "s_locked",
                            ![t].held = {"LAST_REAL_SEARCH"},
                            ![t].due = (instant - LAST_REAL_SEARCH > ThrottleWindow),
                            ![t].at = Some(instant)]
    /\ forced' = FALSE
    /\ UNCHANGED <<now, disk, AST_CACHE, ARTICLE_CACHE, BUSY_ASTS, calls,
                   instant, LAST_REAL_SEARCH, last_full_scan>>

\* search(), lines 59-60: the task gets the mutex once no task holds it, and
\* tests whether the last walk is more than the window ago
SearchLock(t) ==
    /\ task[t].pc = "s_lock"
    /\ \A u \in DOMAIN task : "LAST_REAL_SEARCH" \notin task[u].held
    /\ task' = [task EXCEPT ![t].pc = "s_locked",
                            ![t].held = {"LAST_REAL_SEARCH"},
                            ![t].due = (instant - LAST_REAL_SEARCH > ThrottleWindow),
                            ![t].at = Some(instant)]
    /\ forced' = FALSE
    /\ UNCHANGED <<now, disk, AST_CACHE, ARTICLE_CACHE, BUSY_ASTS, calls,
                   instant, LAST_REAL_SEARCH, last_full_scan>>

\* search() without the drop of lines 63 and 66: the guard lives to the end of
\* the function
SearchDecide_KeepGuard(t) ==
    /\ task[t].pc = "s_locked"
    /\ IF task[t].due
       THEN /\ LAST_REAL_SEARCH' = instant
            /\ task' = [task EXCEPT ![t].pc = "s_walk"]
       ELSE /\ UNCHANGED LAST_REAL_SEARCH
            /\ task' = [task EXCEPT ![t].pc = "s_snap"]
    /\ UNCHANGED <<now, disk, AST_CACHE, ARTICLE_CACHE, BUSY_ASTS, calls,
                   instant, last_full_scan, forced>>

\* search() that does not record the walk it starts
SearchDecide_NoReset(t) ==
    /\ task[t].pc = "s_locked"
    /\ task' = [task EXCEPT ![t].pc = IF task[t].due THEN "s_walk" ELSE "s_snap",
                            ![t].held = {}]
    /\ UNCHANGED <<now, disk, AST_CACHE, ARTICLE_CACHE, BUSY_ASTS, calls, throttle>>

\* search() that writes the timestamp whether or not a walk is due
SearchDecide_AlwaysReset(t) ==
    /\ task[t].pc = "s_locked"
    /\ LAST_REAL_SEARCH' = instant
    /\ task' = [task EXCEPT ![t].pc = IF task[t].due THEN "s_walk" ELSE "s_snap",
                            ![t].held = {}]
    /\ UNCHANGED <<now, disk, AST_CACHE, ARTICLE_CACHE, BUSY_ASTS, calls,
                   instant, last_full_scan, forced>>

\* search(), lines 61-63 and 66: a walk that is due is recorded as starting
\* now; the guard is dropped before the walk or the snapshot
SearchDecide(t) ==
    /\ task[t].pc = "s_locked"
    /\ IF task[t].due
       THEN /\ LAST_REAL_SEARCH' = instant
            /\ task' = [task EXCEPT ![t].pc = "s_walk", ![t].held = {}]
       ELSE /\ UNCHANGED LAST_REAL_SEARCH
            /\ task' = [task EXCEPT ![t].pc = "s_snap", ![t].held = {}]
    /\ UNCHANGED <<now, disk, AST_CACHE, ARTICLE_CACHE, BUSY_ASTS, calls,
                   instant, last_full_scan, forced>>

\* the search of task record tk returns, having got `articles`; a guard still
\* held is dropped with the function's locals. The record keeps which files
\* were on disk.
SearchReturn(tk, how, articles) ==
    [tk EXCEPT !.pc = "done", !.held = {},
               !.result = Some(Ok(SearchResult(Unwrap(tk.search), articles))),
               !.index = Some([how |-> how,
                               articles |-> {articles[i] : i \in 1 .. Len(articles)},
                               files |-> {p \in DOMAIN disk : IsSome(disk[p])}])]

\* search(), line 64: the error of find_articles leaves the function through `?`
SearchFail(tk, how, e) ==
    [tk EXCEPT !.pc = "done", !.held = {},
               !.result = Some(Err(e)),
               !.index = Some([how |-> how, articles |-> {},
                               files |-> {p \in DOMAIN disk : IsSome(disk[p])}])]

\* search() resetting the timestamp again when the walk has ended
SearchWalk_Reset(t, denied) ==
    /\ task[t].pc = "s_walk"
    /\ \E ord \in Orderings(DOMAIN disk) :
        LET found == FindArticles(<<"articles">>, ord, denied, AST_CACHE, BUSY_ASTS)
        IN  /\ AST_CACHE' = found.cache
            /\ BUSY_ASTS' = found.busy
            /\ task' = [task EXCEPT ![t] =
                    [(IF found.ok THEN SearchReturn(task[t], "walk", found.out)
                      ELSE SearchFail(task[t], "walk", "IoError"))
                     EXCEPT !.denied = denied]]
    /\ LAST_REAL_SEARCH' = instant
    /\ UNCHANGED <<now, disk, ARTICLE_CACHE, calls, instant, last_full_scan, forced>>

\* search(), line 64 and lines 72-87: the walk of the disk, on which read_dir
\* fails for the directories in `denied`
SearchWalk(t, denied) ==
    /\ task[t].pc = "s_walk"
    /\ \E ord \in Orderings(DOMAIN disk) :
        LET found == FindArticles(<<"articles">>, ord, denied, AST_CACHE, BUSY_ASTS)
        IN  /\ AST_CACHE' = found.cache
            /\ BUSY_ASTS' = found.busy
            /\ task' = [task EXCEPT ![t] =
                    [(IF found.ok THEN SearchReturn(task[t], "walk", found.out)
                      ELSE SearchFail(task[t], "walk", "IoError"))
                     EXCEPT !.denied = denied]]
    /\ UNCHANGED <<now, disk, ARTICLE_CACHE, calls, throttle>>

\* search(), lines 67-70 and lines 72-87: the entries of AST_CACHE, in the order
\* the map iterates
SearchSnap(t) ==
    /\ task[t].pc = "s_snap"
    /\ \E articles \in Orderings({[path |-> p, meta |-> Unwrap(AST_CACHE[p]).meta] :
                                    p \in {q \in DOMAIN AST_CACHE : IsSome(AST_CACHE[q])}}) :
        task' = [task EXCEPT ![t] = SearchReturn(task[t], "cache", articles)]
    /\ UNCHANGED <<now, disk, AST_CACHE, ARTICLE_CACHE, BUSY_ASTS, calls, throttle>>

\* the handler has answered its request
SearchEnd(t) ==
    /\ task[t].pc = "done" /\ task[t].kind = "search"
    /\ task' = [task EXCEPT ![t] = Idle]
    /\ UNCHANGED <<now, disk, AST_CACHE, ARTICLE_CACHE, BUSY_ASTS, calls, throttle>>

\* Instant::now() moves on, by half a throttle window at a time
Tick ==
    /\ instant < MaxTicks * (ThrottleWindow \div 2)
    /\ instant' = instant + (ThrottleWindow \div 2)
    /\ UNCHANGED <<now, disk, AST_CACHE, ARTICLE_CACHE, BUSY_ASTS, task, calls,
                   LAST_REAL_SEARCH, last_full_scan, forced>>

\* GET /force-refresh (main.rs) calls ArticleManager::force_rescan, which puts
\* the manager's last_full_scan back
ForceRescan ==
    /\ last_full_scan' = instant - ForcedBehind
    /\ forced' = TRUE
    /\ UNCHANGED <<now, disk, AST_CACHE, ARTICLE_CACHE, BUSY_ASTS, task, calls,
                   instant, LAST_REAL_SEARCH>>

\* The documents of the search: three files in two directories, each with one
\* of four front matters (a hidden one among them; dates, tags and titles both
\* differ and coincide).
SearchPaths ==
    {<<"articles", "a.md">>, <<"articles", "d", "b.md">>, <<"articles", "d", "c.md">>}

SearchFronts ==
    {[Published EXCEPT !.title = <<"a">>, !.tags = {"x"}, !.created = 1, !.updated = 3],
     [Published EXCEPT !.title = <<"a", "b">>, !.tags = {"x", "y"}, !.created = 2, !.updated = 2],
     [Published EXCEPT !.title = <<"b">>, !.hidden = TRUE, !.created = 2, !.updated = 1],
     [Published EXCEPT !.title = <<"b">>, !.tags = {"y"}, !.created = 3, !.updated = 2]}

\* The criteria of the search: the default ones changed in at most two fields.
SearchBounds == {Unbounded, Included(2), Excluded(2)}

AllSearches ==
    [search_path : {<<>>, <<"d">>},
     exclude_paths : {{}, {<<"articles", "d", "b.md">>}},
     tags : {{}, {"x"}, {"x", "y"}},
     created : SearchBounds \X SearchBounds,
     updated : SearchBounds \X SearchBounds,
     title_filter : {None, Some(<<>>), Some(<<"b">>), Some(<<"a", "b">>)},
     sort_type : SortTypes,
     limit : {None, Some(1), Some(2)}]

Searches ==
    {s \in AllSearches :
        Cardinality({f \in DOMAIN DefaultSearch : s[f] # DefaultSearch[f]}) <= 2}

InitSearch ==
    /\ now = 0
    /\ disk \in [SearchPaths -> {Some(FileOf(0, "plain", f)) : f \in SearchFronts}]
    /\ AST_CACHE = [p \in SearchPaths |-> None]
    /\ ARTICLE_CACHE = [p \in SearchPaths |-> None]
    /\ BUSY_ASTS = {}
    /\ task = [t \in {"t1"} |-> Idle]
    /\ calls = 0
    /\ instant = 0
    /\ LAST_REAL_SEARCH = instant - StartBehind
    /\ last_full_scan = instant - ManagerBehind
    /\ forced = FALSE

NextSearch ==
    \/ \E s \in Searches : SearchCall("t1", s)
    \/ SearchLock("t1")
    \/ SearchDecide("t1")
    \/ SearchWalk("t1", {})
    \/ SearchSnap("t1")
    \/ SearchEnd("t1")

SpecSearch == InitSearch /\ [][NextSearch]_vars

---------------------------------------------------------------------------
\* The throttle of search(): two request tasks search a tree of two documents,
\* one of them in a directory, while the clock moves on.  A document may be one
\* the converter rejects, and a directory one that cannot be read.
ThrottlePaths == {<<"articles", "a.md">>, <<"articles", "d", "b.md">>}
ThrottleDirs == {<<"articles">>, <<"articles", "d">>}
ThrottleKinds == {"plain", "failA"}

InitThrottle ==
    /\ now = 0
    /\ \E kind \in [ThrottlePaths -> ThrottleKinds] :
            disk = [p \in ThrottlePaths |->
                        Some(FileOf(0, kind[p], [Published EXCEPT !.created = Len(p)]))]
    /\ AST_CACHE = [p \in ThrottlePaths |-> None]
    /\ ARTICLE_CACHE = [p \in ThrottlePaths |-> None]
    /\ BUSY_ASTS = {}
    /\ task = [t \in Tasks |-> Idle]
    /\ calls = 0
    /\ instant = 0
    /\ LAST_REAL_SEARCH = instant - StartBehind
    /\ last_full_scan = instant - ManagerBehind
    /\ forced = FALSE

NextThrottle ==
    \/ \E t \in Tasks : SearchCall(t, DefaultSearch)
    \/ \E t \in Tasks : SearchLock(t)
    \/ \E t \in Tasks : SearchDecide(t)
    \/ \E t \in Tasks, denied \in SUBSET ThrottleDirs : SearchWalk(t, denied)
    \/ \E t \in Tasks : SearchSnap(t)
    \/ \E t \in Tasks : SearchEnd(t)
    \/ Tick
    \/ ForceRescan

SpecThrottle == InitThrottle /\ [][NextThrottle]_vars

---------------------------------------------------------------------------
\* Requests for documents and searches side by side, on a tree whose files can
\* be deleted.
IndexKinds == {"plain", "code"}

\* the handler of a document request has answered
ArticleEnd(t) ==
    /\ task[t].pc = "done" /\ task[t].kind = "article"
    /\ task' = [task EXCEPT ![t] = Idle]
    /\ UNCHANGED <<now, disk, AST_CACHE, ARTICLE_CACHE, BUSY_ASTS, calls, throttle>>

InitIndex ==
    /\ now = 0
    /\ \E kind \in [ThrottlePaths -> IndexKinds] :
            disk = [p \in ThrottlePaths |->
                        Some(FileOf(0, kind[p], [Published EXCEPT !.created = Len(p)]))]
    /\ AST_CACHE = [p \in ThrottlePaths |-> None]
    /\ ARTICLE_CACHE = [p \in ThrottlePaths |-> None]
    /\ BUSY_ASTS = {}
    /\ task = [t \in Tasks |-> Idle]
    /\ calls = 0
    /\ instant = 0
    /\ LAST_REAL_SEARCH = instant - StartBehind
    /\ last_full_scan = instant - ManagerBehind
    /\ forced = FALSE

NextIndex ==
    \/ \E t \in Tasks, p \in ThrottlePaths : Call(t, "article", p)
    \/ \E t \in Tasks : Step(t)
    \/ \E t \in Tasks : ArticleEnd(t)
    \/ \E t \in Tasks : SearchCall(t, DefaultSearch)
    \/ \E t \in Tasks : SearchLock(t)
    \/ \E t \in Tasks : SearchDecide(t)
    \/ \E t \in Tasks : SearchWalk(t, {})
    \/ \E t \in Tasks : SearchSnap(t)
    \/ \E t \in Tasks : SearchEnd(t)
    \/ \E p \in ThrottlePaths : DeleteFile(p)

SpecIndex == InitIndex /\ [][NextIndex]_vars

---------------------------------------------------------------------------
\* Documents that embed searches: the filter of Stage A runs search(), whose
\* walk resolves documents, whose filters run search().  A call made by a call
\* puts the caller's record on the stack and takes its place until it returns.
NestedKinds == {"plain", "embed"}

\* the record of a call that calls: stack holds the records of the callers that
\* wait for this call, the nearest first; filtered says that the filters have
\* run on the tree of Stage A; todo are the files a walk has still to resolve
\* and out what it has found.
NestedIdle == Idle @@ [stack |-> <<>>, filtered |-> FALSE, todo |-> <<>>, out |-> <<>>]

\* a request handler calls get_article(p)
NestedCall(t, p) ==
    /\ task[t].pc \in {"idle", "done"} /\ task[t].stack = <<>>
    /\ calls < MaxCalls
    /\ calls' = calls + 1
    /\ task' = [task EXCEPT ![t] =
                    [NestedIdle EXCEPT !.pc = "ga_stat", !.kind = "article", !.path = p]]
    /\ UNCHANGED <<now, disk, AST_CACHE, ARTICLE_CACHE, BUSY_ASTS, throttle>>

Push(tk, callee) == [callee EXCEPT !.stack = <<[tk EXCEPT !.stack = <<>>]>> \o tk.stack]

\* the records of task t: the running call and the callers that wait for it
Frames(t) == <<[task[t] EXCEPT !.stack = <<>>]>> \o task[t].stack

\* the tree of Stage A of t's document needs no search, or has had it
FilterDone(t) ==
    \/ ~IsSome(disk[task[t].path])
    \/ Unwrap(disk[task[t].path]).kind # "embed"
    \/ task[t].filtered

\* frag_search_results, lines 52-58: the visitor comes to a code block of class
\* search and runs search() on the blocking thread
FilterSearch(t) ==
    LET tk == task[t]
        search == [DefaultSearch EXCEPT !.exclude_paths = {tk.path}]
    IN  /\ tk.pc = "stageA" /\ ~FilterDone(t)
        /\ task' = [task EXCEPT ![t] =
                Push([tk EXCEPT !.filtered = TRUE],
                     [NestedIdle EXCEPT !.pc = "s_lock", !.kind = "search",
                                  !.search = Some(search)])]
        /\ UNCHANGED <<now, disk, AST_CACHE, ARTICLE_CACHE, BUSY_ASTS, calls, throttle>>

\* search(), line 64: find_articles starts on the root; the files in the order
\* in which it comes to them
WalkStart(t) ==
    /\ task[t].pc = "s_walk"
    /\ \E ord \in Orderings({p \in DOMAIN disk : IsFile(p)}) :
            task' = [task EXCEPT ![t].pc = "s_walking", ![t].todo = ord, ![t].out = <<>>]
    /\ UNCHANGED <<now, disk, AST_CACHE, ARTICLE_CACHE, BUSY_ASTS, calls, throttle>>

\* find_articles, lines 39-40: get_metadata on the next file
WalkNext(t) ==
    LET tk == task[t]
    IN  /\ tk.pc = "s_walking" /\ tk.todo # <<>>
        /\ task' = [task EXCEPT ![t] =
                Push([tk EXCEPT !.todo = Tail(tk.todo)],
                     [NestedIdle EXCEPT !.pc = "gm_stat", !.kind = "meta",
                                  !.path = Head(tk.todo)])]
        /\ UNCHANGED <<now, disk, AST_CACHE, ARTICLE_CACHE, BUSY_ASTS, calls, throttle>>

\* find_articles, line 55, and search(), lines 72-87: the walk has come to its end
WalkEnd(t) ==
    LET tk == task[t]
    IN  /\ tk.pc = "s_walking" /\ tk.todo = <<>>
        /\ task' = [task EXCEPT ![t] =
                SearchReturn([tk EXCEPT !.out = <<>>], "walk", tk.out)]
        /\ UNCHANGED <<now, disk, AST_CACHE, ARTICLE_CACHE, BUSY_ASTS, calls, throttle>>

\* a call made by a call returns: find_articles keeps the metadata of a file
\* that get_metadata resolved (lines 40-42); the visitor goes on after its
\* search, whatever it gave (filters/mod.rs lines 58-72)
NestedReturn(t) ==
    LET tk == task[t]
        caller == Head(tk.stack)
        res == Unwrap(tk.result)
        found == IF caller.pc = "s_walking" /\ res.ok
                 THEN Append(caller.out, [path |-> tk.path, meta |-> Value(res).meta])
                 ELSE caller.out
    IN  /\ tk.pc = "done" /\ tk.stack # <<>>
        /\ task' = [task EXCEPT ![t] =
                [caller EXCEPT !.stack = Tail(tk.stack), !.out = found]]
        /\ UNCHANGED <<now, disk, AST_CACHE, ARTICLE_CACHE, BUSY_ASTS, calls, throttle>>

\* tokio::sync::Mutex::lock of a call made by a call: the mutex is not free
\* either while a waiting caller holds its guard
NestedLock(t) ==
    /\ \A u \in Tasks : \A i \in 1 .. Len(task[u].stack) :
            "LAST_REAL_SEARCH" \notin task[u].stack[i].held
    /\ SearchLock(t)

InitNested ==
    /\ now = 0
    /\ \E kind \in [ThrottlePaths -> NestedKinds] :
            disk = [p \in ThrottlePaths |->
                        Some(FileOf(0, kind[p], [Published EXCEPT !.created = Len(p)]))]
    /\ AST_CACHE = [p \in ThrottlePaths |-> None]
    /\ ARTICLE_CACHE = [p \in ThrottlePaths |-> None]
    /\ BUSY_ASTS = {}
    /\ task = [t \in Tasks |-> NestedIdle]
    /\ calls = 0
    /\ instant = 0
    /\ LAST_REAL_SEARCH = instant - StartBehind
    /\ last_full_scan = instant - ManagerBehind
    /\ forced = FALSE

NestedStep(t) ==
    \/ GaStat(t)
    \/ GaMatch(t)
    \/ GmStat(t)
    \/ GmMatch(t)
    \/ PrBusy(t)
    \/ PrSkip(t)
    \/ FilterSearch(t)
    \/ StageA(t) /\ FilterDone(t)
    \/ PrInstall(t)
    \/ PrRemove(t)
    \/ StageB(t)
    \/ RaInstall(t)
    \/ NestedLock(t)
    \/ SearchDecide(t)
    \/ SearchSnap(t)
    \/ WalkStart(t)
    \/ WalkNext(t)
    \/ WalkEnd(t)
    \/ NestedReturn(t)

\* one request at a time is followed through its nested calls
NestedTasks == {"t1"}

NextNested ==
    \/ \E t \in NestedTasks, p \in ThrottlePaths : NestedCall(t, p)
    \/ \E t \in NestedTasks : NestedStep(t)
    \/ Tick

\* a call that can take a step does take one in the end
SpecNested ==
    InitNested /\ [][NextNested]_vars /\ \A t \in NestedTasks : WF_vars(NestedStep(t))

---------------------------------------------------------------------------
\* The same program on documents whose tree the converter rejects in Stage B,
\* with and without a code block.
InitStages ==
    /\ now = 0
    /\ disk \in [Paths -> {Some(File(0, k)) : k \in StageKinds}]
    /\ AST_CACHE = [p \in Paths |-> None]
    /\ ARTICLE_CACHE = [p \in Paths |-> None]
    /\ BUSY_ASTS = {}
    /\ task = [t \in Tasks |-> Idle]
    /\ calls = 0
    /\ instant = 0
    /\ LAST_REAL_SEARCH = instant - StartBehind
    /\ last_full_scan = instant - ManagerBehind
    /\ forced = FALSE

NextStages ==
    \/ \E t \in Tasks, p \in Paths : Call(t, "article", p)
    \/ \E t \in Tasks : Step(t)
    \/ \E p \in Paths, k \in StageKinds : WriteFile(p, k)

SpecStages == InitStages /\ [][NextStages]_vars

---------------------------------------------------------------------------
\* The same program on documents that are published or not yet: the editor
\* turns one into the other.
ReadyFronts == {Published, Draft}

InitReady ==
    /\ now = 0
    /\ disk \in [Paths -> {Some(FileOf(0, "plain", f)) : f \in ReadyFronts}]
    /\ AST_CACHE = [p \in Paths |-> None]
    /\ ARTICLE_CACHE = [p \in Paths |-> None]
    /\ BUSY_ASTS = {}
    /\ task = [t \in Tasks |-> Idle]
    /\ calls = 0
    /\ instant = 0
    /\ LAST_REAL_SEARCH = instant - StartBehind
    /\ last_full_scan = instant - ManagerBehind
    /\ forced = FALSE

NextReady ==
    \/ \E t \in Tasks, p \in Paths : Call(t, "article", p)
    \/ \E t \in Tasks : Step(t)
    \/ \E p \in Paths, f \in ReadyFronts : WriteDoc(p, "plain", f)

SpecReady == InitReady /\ [][NextReady]_vars

---------------------------------------------------------------------------
\* The same program on documents with and without dates in the front matter,
\* among them files whose timestamps lie on 1970-01-01 (as left by archives and
\* image builds that zero the timestamps).
DateFronts == {Published, Undated}

InitDates ==
    /\ now = 0
    /\ disk \in [Paths -> {Some([FileOf(v, "plain", f) EXCEPT !.born = b]) :
                                v \in {Epoch, 0}, b \in {Epoch, 0}, f \in DateFronts}]
    /\ \A p \in Paths : Unwrap(disk[p]).born <= Unwrap(disk[p]).ver
    /\ AST_CACHE = [p \in Paths |-> None]
    /\ ARTICLE_CACHE = [p \in Paths |-> None]
    /\ BUSY_ASTS = {}
    /\ task = [t \in Tasks |-> Idle]
    /\ calls = 0
    /\ instant = 0
    /\ LAST_REAL_SEARCH = instant - StartBehind
    /\ last_full_scan = instant - ManagerBehind
    /\ forced = FALSE

NextDates ==
    \/ \E t \in Tasks, p \in Paths : Call(t, "article", p)
    \/ \E t \in Tasks : Step(t)
    \/ \E p \in Paths, f \in DateFronts : WriteDoc(p, "plain", f)
    \/ \E p \in Paths : DeleteFile(p)

SpecDates == InitDates /\ [][NextDates]_vars

---------------------------------------------------------------------------
\* Properties

Renderable(file) == IsSome(file) /\ Unwrap(file).kind \in {"plain", "code"}
Rendering(t, p) == task[t].path = p /\ task[t].pc \in {"stageA", "pr_install", "pr_remove"}

\* C1 as stated: a get_article call that found an entry cached and whose
\* converter then exited non-zero in Stage A or Stage B returns that entry.
C1_ReturnsCachedEntry ==
    \A t \in Tasks :
        LET tk == task[t]
        IN  (/\ tk.pc = "done" /\ tk.kind = "article"
             /\ tk.fail \in {"stageA", "stageB"} /\ IsSome(tk.ga_cached)) =>
                Unwrap(tk.result) = Ok(Unwrap(tk.ga_cached))

\* C1 (amended): a get_article call in which a render step failed returns the
\* entry it found cached when render_article failed, and the error only when it
\* found none; when Stage A failed and a tree was cached, render_article goes on
\* and the call returns the entry newly rendered from that cached tree.
C1_Fallback ==
    \A t \in Tasks :
        LET tk == task[t]
        IN  (tk.pc = "done" /\ tk.kind = "article" /\ tk.fail # "none") =>
                IF tk.render = "err"
                THEN IF IsSome(tk.ga_cached)
                     THEN Unwrap(tk.result) = Ok(Unwrap(tk.ga_cached))
                     ELSE Unwrap(tk.result) = Err(IF tk.fail = "meta" THEN "JsonError"
                                                                     ELSE "PandocFailed")
                ELSE /\ tk.render = "ok" /\ tk.fail \in {"stageA", "meta"}
                     /\ IsSome(tk.gm_cached)
                     /\ Unwrap(tk.result).ok
                     /\ Value(Unwrap(tk.result)).content =
                            [html_of |-> Unwrap(tk.gm_cached).ast.ver]
                     /\ Value(Unwrap(tk.result)).meta = Unwrap(tk.gm_cached).meta

C1_Witness ==
    \E t \in Tasks :
        /\ task[t].pc = "done" /\ task[t].kind = "article"
        /\ task[t].fail \in {"stageA", "stageB"}
        /\ IsSome(task[t].ga_cached)
        /\ Unwrap(task[t].result) = Ok(Unwrap(task[t].ga_cached))

\* C2: for every path at most one converter run (Stage A or Stage B) is in
\* progress at any moment.
C2_OneRenderAtATime ==
    \A p \in Paths :
        Cardinality({t \in Tasks : task[t].path = p /\ task[t].pc \in {"stageA", "stageB"}}) <= 1

\* C3: as long as no render of an untouched, renderable file has completed (no
\* entry is installed for it), the calls issued so far have spawned the Stage A
\* converter at most once and the Stage B converter at most once.
C3_OneInvocation ==
    \A p \in Paths :
        (now = 0 /\ Renderable(disk[p]) /\ ~IsSome(ARTICLE_CACHE[p])) =>
            /\ Cardinality({t \in Tasks : task[t].path = p /\ task[t].ranA}) <= 1
            /\ Cardinality({t \in Tasks : task[t].path = p /\ task[t].ranB}) <= 1

\* C4: no get_article call on a never-before-seen, renderable and untouched
\* document returns an error while the first render of it is still in flight:
\* every call that has returned has the document's content.
C4_AllSucceed ==
    \A t \in Tasks :
        LET tk == task[t]
        IN  (/\ tk.pc = "done" /\ tk.kind = "article"
             /\ now = 0 /\ Renderable(disk[tk.path])) =>
                /\ Unwrap(tk.result).ok
                /\ Value(Unwrap(tk.result)).content = [html_of |-> 0]

\* C5: a path is in BUSY_ASTS only while some task is rendering it.
C5_BusyOnlyWhileRendering ==
    \A p \in BUSY_ASTS : \E t \in Tasks : Rendering(t, p)

C7_AbandonedRenderProceeds ==
    \A t \in Tasks :
        task[t].pc = "dropped_render" =>
            \/ task[t].path \notin BUSY_ASTS
            \/ \E u \in Tasks : Rendering(u, task[t].path)

\* C8: a get_article call that could not read the modification time returns
\* NoArticle, whatever is cached, and spawns no converter.
C8_NoDocument ==
    \A t \in Tasks :
        LET tk == task[t]
        IN  (/\ tk.kind = "article" /\ tk.pc \notin {"ga_stat", "ga_match"}
             /\ ~IsSome(tk.ga_mtime)) =>
                /\ tk.pc = "done"
                /\ Unwrap(tk.result) = Err("NoArticle")
                /\ ~tk.ranA /\ ~tk.ranB

C8_Witness ==
    \E t \in Tasks :
        /\ task[t].pc = "done" /\ task[t].kind = "article" /\ ~IsSome(task[t].ga_mtime)
        /\ IsSome(ARTICLE_CACHE[task[t].path])
        /\ Unwrap(task[t].result) = Err("NoArticle")

\* C9: the lookup of get_article that finds an entry at least as new as the file
\* and not marked always_rerender returns that entry, spawns no converter and
\* leaves both tables as they are; the lookup of get_metadata likewise hands on
\* the cached tree without a Stage A run.
C9_FreshHit ==
    [][\A t \in Tasks :
        LET tk == task[t]
            p == tk.path
        IN  /\ (/\ tk.pc = "ga_match" /\ task'[t] # tk
                /\ IsSome(tk.ga_mtime) /\ IsSome(ARTICLE_CACHE[p])
                /\ Unwrap(ARTICLE_CACHE[p]).rendered_at >= Unwrap(tk.ga_mtime)
                /\ ~Unwrap(ARTICLE_CACHE[p]).meta.always_rerender) =>
                    /\ task'[t].pc = "done"
                    /\ task'[t].result = Some(Ok(Unwrap(ARTICLE_CACHE[p])))
                    /\ ~task'[t].ranA /\ ~task'[t].ranB
                    /\ UNCHANGED <<AST_CACHE, ARTICLE_CACHE>>
            /\ (/\ tk.pc = "gm_match" /\ task'[t] # tk
                /\ IsSome(tk.gm_mtime) /\ IsSome(AST_CACHE[p])
                /\ Unwrap(AST_CACHE[p]).time >= Unwrap(tk.gm_mtime)
                /\ ~Unwrap(AST_CACHE[p]).meta.always_rerender) =>
                    /\ task'[t].pc = "stageB"
                    /\ task'[t].ast = Some(Unwrap(AST_CACHE[p]).ast)
                    /\ task'[t].meta = Some(Unwrap(AST_CACHE[p]).meta)
                    /\ ~task'[t].ranA
                    /\ UNCHANGED <<AST_CACHE, ARTICLE_CACHE>>
      ]_vars

C9_Witness ==
    \E t \in Tasks :
        /\ task[t].pc = "done" /\ task[t].kind = "article" /\ task[t].render = "none"
        /\ Unwrap(task[t].result).ok
        /\ Unwrap(task[t].result) = Ok(Unwrap(ARTICLE_CACHE[task[t].path]))

\* C10: a get_article call that found the cached entry older than the file, on a
\* renderable file that has not changed since, has rendered and returns the
\* file's current content.
C10_StaleRerender ==
    \A t \in Tasks :
        LET tk == task[t]
        IN  (/\ tk.pc = "done" /\ tk.kind = "article"
             /\ IsSome(tk.ga_mtime) /\ IsSome(tk.ga_cached)
             /\ Unwrap(tk.ga_cached).rendered_at < Unwrap(tk.ga_mtime)
             /\ Renderable(disk[tk.path])
             /\ Unwrap(disk[tk.path]).ver = Unwrap(tk.ga_mtime)) =>
                /\ tk.render = "ok"
                /\ Value(Unwrap(tk.result)).content = [html_of |-> Unwrap(tk.ga_mtime)]

C12_NotReadyNotServed ==
    /\ \A p \in Paths :
        IsSome(ARTICLE_CACHE[p]) => Unwrap(ARTICLE_CACHE[p]).meta.ready
    /\ \A t \in Tasks :
        LET tk == task[t]
        IN  (/\ tk.pc = "done" /\ tk.kind = "article"
             /\ tk.ranA /\ tk.fail = "none"
             /\ disk[tk.path] = Some(FileOf(0, "plain", Draft))) =>
                IF IsSome(tk.ga_cached)
                THEN Unwrap(tk.result) = Ok(Unwrap(tk.ga_cached))
                ELSE Unwrap(tk.result) = Err("NotForPublication")

\* C13 as stated: no entry of either table has created or updated at the unset
\* date.
C13_DatesResolved ==
    \A p \in Paths :
        /\ IsSome(AST_CACHE[p]) =>
              /\ Unwrap(AST_CACHE[p]).meta.updated # Unset
              /\ Unwrap(AST_CACHE[p]).meta.created # Unset
        /\ IsSome(ARTICLE_CACHE[p]) =>
              /\ Unwrap(ARTICLE_CACHE[p]).meta.updated # Unset
              /\ Unwrap(ARTICLE_CACHE[p]).meta.created # Unset

\* the dates of metadata m are resolved, or the file version v it was made of is
\* one whose timestamps may lie on 1970-01-01 (only files older than the process
\* do; only a modification time of Epoch gives the unset date)
ResolvedOrEpoch(m, v) ==
    /\ m.updated = Unset => v = Epoch
    /\ m.created = Unset => v <= 0

\* C13 (amended): the entry a render installs in AST_CACHE has the dates of the
\* front matter, and for a date the front matter leaves unset the date of the
\* file's modification / creation time as read at that moment (the clock's date
\* when the file cannot be read); so a date of an entry of either table is unset
\* only when that timestamp of the file itself lies on 1970-01-01.
C13_Backfilled ==
    /\ [](\A p \in Paths :
            /\ IsSome(AST_CACHE[p]) =>
                  ResolvedOrEpoch(Unwrap(AST_CACHE[p]).meta, Unwrap(AST_CACHE[p]).ast.ver)
            /\ IsSome(ARTICLE_CACHE[p]) =>
                  ResolvedOrEpoch(Unwrap(ARTICLE_CACHE[p]).meta,
                                  Unwrap(ARTICLE_CACHE[p]).content.html_of))
    /\ [][\A p \in Paths :
            AST_CACHE'[p] # AST_CACHE[p] =>
                LET e == Unwrap(AST_CACHE'[p])
                    dated == e.ast.front # Undated
                    file == disk[p]
                IN  /\ e.meta.updated = IF dated THEN FrontDate
                                         ELSE IF IsSome(file) THEN DateNaive(Unwrap(file).ver)
                                         ELSE DateNaive(now)
                    /\ e.meta.created = IF dated THEN FrontDate
                                         ELSE IF IsSome(file) THEN DateNaive(Unwrap(file).born)
                                         ELSE DateNaive(now)
       ]_vars

C13_Witness ==
    \E p \in Paths :
        /\ IsSome(AST_CACHE[p]) /\ IsSome(ARTICLE_CACHE[p])
        /\ Unwrap(AST_CACHE[p]).ast.front = Undated
        /\ Unwrap(AST_CACHE[p]).meta.updated \notin {Unset, FrontDate}
        /\ Unwrap(AST_CACHE[p]).meta.created # Unset
        /\ Unwrap(ARTICLE_CACHE[p]).meta = Unwrap(AST_CACHE[p]).meta

\* a search() call of task t has returned
Searched(t) == task[t].pc = "done" /\ task[t].kind = "search"
SearchTasks == {t \in DOMAIN task : Searched(t)}
Hits(t) == Value(Unwrap(task[t].result))
Indexed(t) == Unwrap(task[t].index).articles

C15_UnderRoot ==
    \A t \in SearchTasks :
        \A i \in 1 .. Len(Hits(t)) :
            StartsWith(Hits(t)[i].path, Unwrap(task[t].search).search_path)

\* the entry with metadata m meets the criteria s, as C16 words it
Meets(s, m) ==
    /\ ~(s.created[1].bound = "Included" /\ m.created < s.created[1].at)
    /\ ~(s.created[1].bound = "Excluded" /\ m.created <= s.created[1].at)
    /\ ~(s.created[2].bound = "Included" /\ m.created > s.created[2].at)
    /\ ~(s.created[2].bound = "Excluded" /\ m.created >= s.created[2].at)
    /\ ~(s.updated[1].bound = "Included" /\ m.updated < s.updated[1].at)
    /\ ~(s.updated[1].bound = "Excluded" /\ m.updated <= s.updated[1].at)
    /\ ~(s.updated[2].bound = "Included" /\ m.updated > s.updated[2].at)
    /\ ~(s.updated[2].bound = "Excluded" /\ m.updated >= s.updated[2].at)
    /\ m.hidden = FALSE
    /\ s.tags \subseteq m.tags
    /\ \/ s.title_filter \in {None, Some(<<>>)}
       \/ \E i, j \in 1 .. Len(m.title) : SubSeq(m.title, i, j) = Unwrap(s.title_filter)

\* C16: the result of search() holds, once each, exactly the articles it got
\* that meet the criteria: both dates within their bounds, not hidden, all the
\* tags asked for, the title filter a substring of the title.
C16_RetainedIff ==
    \A t \in SearchTasks :
        /\ {[path |-> StripPrefix(a.path), meta |-> a.meta] :
                a \in {b \in Indexed(t) : Meets(Unwrap(task[t].search), b.meta)}}
             = {Hits(t)[i] : i \in 1 .. Len(Hits(t))}
        /\ \A i, j \in 1 .. Len(Hits(t)) : Hits(t)[i].path = Hits(t)[j].path => i = j

C16_Witness ==
    \E t \in SearchTasks :
        /\ Unwrap(task[t].search).created = <<Excluded(2), Unbounded>>
        /\ \E a \in Indexed(t) : a.meta.created = 2 /\ ~a.meta.hidden
        /\ Len(Hits(t)) = 1

\* l comes before r, or equals it, in the lexicographic order of strings
LexLeq(l, r) ==
    \E k \in 0 .. Len(l) :
        /\ k <= Len(r)
        /\ SubSeq(l, 1, k) = SubSeq(r, 1, k)
        /\ \/ k = Len(l)
           \/ k < Len(r) /\ CharOrd[l[k + 1]] < CharOrd[r[k + 1]]

\* C17: the result of search() is in the order of its sort type: created,
\* updated or title never decreasing along it for the ascending types, never
\* increasing for the descending ones.
C17_Sorted ==
    \A t \in SearchTasks :
        \A i \in 1 .. (Len(Hits(t)) - 1) :
            LET l == Hits(t)[i].meta
                r == Hits(t)[i + 1].meta
                sort_type == Unwrap(task[t].search).sort_type
            IN  CASE sort_type = "CreateAsc" -> l.created <= r.created
                  [] sort_type = "CreateDesc" -> l.created >= r.created
                  [] sort_type = "UpdateAsc" -> l.updated <= r.updated
                  [] sort_type = "UpdateDesc" -> l.updated >= r.updated
                  [] sort_type = "NameAsc" -> LexLeq(l.title, r.title)
                  [] sort_type = "NameDesc" -> LexLeq(r.title, l.title)

C17_Witness ==
    \E t \in SearchTasks :
        /\ Unwrap(task[t].search).sort_type = "CreateDesc"
        /\ Len(Hits(t)) = 3
        /\ Hits(t)[1].meta.created = 3
        /\ Hits(t)[2].meta.created = 2
        /\ Hits(t)[3].meta.created = 1

Reverse(seq) == [i \in 1 .. Len(seq) |-> seq[Len(seq) + 1 - i]]

Opposite(sort_type) ==
    CASE sort_type = "CreateAsc" -> "CreateDesc"
      [] sort_type = "CreateDesc" -> "CreateAsc"
      [] sort_type = "UpdateAsc" -> "UpdateDesc"
      [] sort_type = "UpdateDesc" -> "UpdateAsc"
      [] sort_type = "NameAsc" -> "NameDesc"
      [] sort_type = "NameDesc" -> "NameAsc"

\* C18: for the articles a search() call got, in whatever order it got them,
\* the result under the opposite sort type is the reverse of the result under
\* the sort type of the call.
C18_DescIsReverse ==
    \A t \in SearchTasks :
        LET search == Unwrap(task[t].search)
        IN  \A articles \in Orderings(Indexed(t)) :
                SearchResult([search EXCEPT !.sort_type = Opposite(search.sort_type)], articles)
                    = Reverse(SearchResult(search, articles))

\* C19: a search() call with a limit returns at most that many entries.
C19_Limit ==
    \A t \in SearchTasks :
        IsSome(Unwrap(task[t].search).limit) =>
            Len(Hits(t)) <= Unwrap(Unwrap(task[t].search).limit)

\* C20: no path of criteria.exclude_paths is in the result of search().
C20_Excluded ==
    \A t \in SearchTasks :
        \A i \in 1 .. Len(Hits(t)) :
            /\ Hits(t)[i].path \notin Unwrap(task[t].search).exclude_paths
            /\ <<"articles">> \o Hits(t)[i].path \notin Unwrap(task[t].search).exclude_paths

---------------------------------------------------------------------------
\* The throttle

\* the search of t has tested the throttle
Tested(t) == IsSome(task[t].at)
\* the search of t took the slow path: it walks the disk, or has walked it
Walks(t) == task[t].kind = "search" /\ task[t].due /\ task[t].pc \in {"s_walk", "done"}
Apart(x, y) == IF x < y THEN y - x ELSE x - y

\* C21: of two searches that tested the throttle within one window of each
\* other at most one walks the disk; and a search walks exactly when, at its
\* test, the last walk started more than the window ago, and then records the
\* present Instant as the start of its own walk.
C21_Throttle ==
    /\ [](\A t, u \in Tasks :
            (t # u /\ Walks(t) /\ Walks(u)) =>
                Apart(Unwrap(task[t].at), Unwrap(task[u].at)) > ThrottleWindow)
    /\ [][\A t \in Tasks :
            (task[t].pc = "s_locked" /\ task'[t].pc # "s_locked") =>
                /\ (task'[t].pc = "s_walk") <=>
                        (Unwrap(task[t].at) - LAST_REAL_SEARCH > ThrottleWindow)
                /\ (task'[t].pc = "s_snap") <=>
                        (Unwrap(task[t].at) - LAST_REAL_SEARCH <= ThrottleWindow)
                /\ task'[t].pc = "s_walk" => LAST_REAL_SEARCH' = instant
         ]_vars

\* a search was served from the cache, and a later one, made more than a window
\* after the process started, has walked the disk again
C21_Witness ==
    \E t, u \in Tasks :
        /\ task[u].pc = "done" /\ task[u].kind = "search" /\ Tested(u) /\ ~task[u].due
        /\ task[t].pc = "done" /\ Walks(t)
        /\ Unwrap(task[u].at) < Unwrap(task[t].at)
        /\ Unwrap(task[t].at) > ThrottleWindow
        /\ calls = 3

\* C22: the test of the throttle and the write of the timestamp are one
\* exclusive section: one task at a time holds the mutex, what it read is still
\* true when it writes, and of the searches that test the throttle at the same
\* Instant at most one takes the slow path.
C22_OneWalker ==
    /\ Cardinality({t \in Tasks : "LAST_REAL_SEARCH" \in task[t].held}) <= 1
    /\ \A t \in Tasks :
            task[t].pc = "s_locked" =>
                task[t].due = (Unwrap(task[t].at) - LAST_REAL_SEARCH > ThrottleWindow)
    /\ \A t, u \in Tasks :
            (/\ t # u /\ Tested(t) /\ Tested(u)
             /\ task[t].at = task[u].at
             /\ task[t].pc \in {"s_walk", "s_snap", "done"}
             /\ task[u].pc \in {"s_walk", "s_snap", "done"}) =>
                ~(task[t].due /\ task[u].due)

\* two searches tested the throttle at the same Instant, after the window had
\* elapsed: one walks, the other takes the cache
C22_Witness ==
    \E t, u \in Tasks :
        /\ task[t].pc = "s_walk" /\ task[u].pc = "s_snap"
        /\ task[t].at = task[u].at

C24_RescanForcesWalk ==
    [][\A t \in Tasks :
        (forced /\ task[t].pc = "s_lock" /\ task'[t].pc = "s_locked") => task'[t].due
      ]_vars

\* C29: the timestamp is written only by the step that ends a walk of the root,
\* and only when that walk gave no error.
C29_ResetAfterWalk ==
    [][LAST_REAL_SEARCH' # LAST_REAL_SEARCH =>
            \E t \in Tasks : /\ task[t].pc = "s_walk" /\ task'[t].pc = "done"
                             /\ Unwrap(task'[t].result).ok
      ]_vars

\* get_metadata gives the tree of p: the file is there, and its tree is cached
\* or Stage A can run on it and succeeds
Resolves(p) ==
    /\ IsSome(disk[p])
    /\ \/ IsSome(AST_CACHE[p])
       \/ p \notin BUSY_ASTS /\ Unwrap(disk[p]).kind \notin {"failA", "badMeta"}

\* the directories above the file p
DirsAbove(p) == {SubSeq(p, 1, n) : n \in 1 .. (Len(p) - 1)}

\* C25: a walk gives an error exactly when the root cannot be read; otherwise it
\* gives every document that resolves and has no unreadable directory above
\* it, and no other: what does not resolve or cannot be read is passed over.
C25_SkipAndContinue ==
    [][\A t \in Tasks :
        (task[t].pc = "s_walk" /\ task'[t].pc = "done") =>
            LET res == Unwrap(task'[t].result)
                unreadable == task'[t].denied
            IN  /\ ~res.ok <=> <<"articles">> \in unreadable
                /\ res.ok =>
                    {a.path : a \in Unwrap(task'[t].index).articles} =
                        {p \in DOMAIN disk : Resolves(p) /\ DirsAbove(p) \cap unreadable = {}}
      ]_vars

\* a walk that could not read the directory d, and passed over a document the
\* converter rejects, has given the document next to them
C25_Witness ==
    \E t \in Tasks :
        /\ task[t].pc = "done" /\ Walks(t) /\ Unwrap(task[t].result).ok
        /\ task[t].denied = {<<"articles", "d">>}
        /\ {a.path : a \in Unwrap(task[t].index).articles} = {<<"articles", "a.md">>}
        /\ Unwrap(disk[<<"articles", "d", "b.md">>]).kind = "failA"

---------------------------------------------------------------------------
\* Renders in flight

C27_BoundedStaleness ==
    [][\A t \in Tasks :
        LET tk == task[t]
            p == tk.path
        IN  (/\ tk.pc = "ga_match" /\ task'[t].pc = "done"
             /\ \A u \in Tasks \ {t} : task[u].pc \in {"idle", "done"}
             /\ Renderable(disk[p])
             /\ tk.ga_mtime = Some(Unwrap(disk[p]).ver)
             /\ IsSome(AST_CACHE[p])
             /\ Unwrap(AST_CACHE[p]).ast.ver = Unwrap(disk[p]).ver) =>
                /\ Unwrap(task'[t].result).ok
                /\ Value(Unwrap(task'[t].result)).content = [html_of |-> Unwrap(disk[p]).ver]
      ]_vars

\* the places where a task is suspended: before the mutex is granted, during
\* the walk, while the file metadata are read and while a converter runs
Suspended(t) ==
    task[t].pc \in {"s_lock", "s_walk", "ga_stat", "gm_stat", "stageA", "pr_install",
                    "stageB"}

\* C28: a task that is suspended holds no lock.
C28_NoLockAcrossAwait ==
    \A t \in Tasks : Suspended(t) => task[t].held = {}

\* while one task walks the disk another holds the mutex
C28_Witness ==
    \E t, u \in Tasks :
        /\ task[t].pc = "s_walk"
        /\ task[u].pc = "s_locked" /\ task[u].held = {"LAST_REAL_SEARCH"}

\* C30: the time stored with a cached tree is the modification time of the file
\* the tree was made from.
C30_MtimeSnapshot ==
    \A p \in DOMAIN AST_CACHE :
        IsSome(AST_CACHE[p]) =>
            Unwrap(AST_CACHE[p]).time = Unwrap(AST_CACHE[p]).ast.ver

---------------------------------------------------------------------------
\* The two stages

\* C31 as stated: a Stage B failure leaves both tables as they are, the tree
\* of the call's Stage A being installed; and a call that finds the tree of the
\* file's present version cached, a tree that Stage B rejects, goes to Stage B
\* with that tree and runs no Stage A.
C31_OnlyStageB ==
    [][\A t \in Tasks :
        LET tk == task[t]
            p == tk.path
        IN  /\ (tk.pc = "stageB" /\ task'[t].pc = "done" /\ task'[t].fail = "stageB") =>
                    /\ UNCHANGED <<AST_CACHE, ARTICLE_CACHE>>
                    /\ tk.ranA => IsSome(AST_CACHE[p])
            /\ (/\ tk.pc = "gm_match" /\ task'[t] # tk
                /\ IsSome(tk.gm_mtime) /\ IsSome(AST_CACHE[p])
                /\ Unwrap(AST_CACHE[p]).ast.ver = Unwrap(tk.gm_mtime)
                /\ ~PandocToHtml(Unwrap(AST_CACHE[p]).ast).ok) =>
                    /\ task'[t].pc = "stageB" /\ ~task'[t].ranA
                    /\ task'[t].ast = Some(Unwrap(AST_CACHE[p]).ast)
      ]_vars

\* C31 (amended): the same, for a tree that is not marked always_rerender.
C31_OnlyStageBUnlessMarked ==
    [][\A t \in Tasks :
        LET tk == task[t]
            p == tk.path
        IN  /\ (tk.pc = "stageB" /\ task'[t].pc = "done" /\ task'[t].fail = "stageB") =>
                    /\ UNCHANGED <<AST_CACHE, ARTICLE_CACHE>>
                    /\ tk.ranA => IsSome(AST_CACHE[p])
            /\ (/\ tk.pc = "gm_match" /\ task'[t] # tk
                /\ IsSome(tk.gm_mtime) /\ IsSome(AST_CACHE[p])
                /\ Unwrap(AST_CACHE[p]).ast.ver = Unwrap(tk.gm_mtime)
                /\ ~PandocToHtml(Unwrap(AST_CACHE[p]).ast).ok
                /\ ~Unwrap(AST_CACHE[p]).meta.always_rerender) =>
                    /\ task'[t].pc = "stageB" /\ ~task'[t].ranA
                    /\ task'[t].ast = Some(Unwrap(AST_CACHE[p]).ast)
      ]_vars

\* a call on an unchanged file has failed in Stage B without a Stage A of its
\* own, on the tree an earlier call left
C31_Witness ==
    \E t \in Tasks :
        /\ task[t].pc = "done" /\ task[t].kind = "article"
        /\ task[t].fail = "stageB" /\ task[t].ranB /\ ~task[t].ranA
        /\ now = 0
        /\ ~IsSome(ARTICLE_CACHE[task[t].path])
        /\ IsSome(AST_CACHE[task[t].path])

---------------------------------------------------------------------------
\* The fast path

\* C32: a search whose test found the last walk within the window changes, in
\* none of its steps, the two cache tables, BUSY_ASTS or LAST_REAL_SEARCH; it
\* runs no converter, takes the snapshot and returns, and every article of its
\* result is an entry of AST_CACHE with the metadata cached there.
C32_FastPathFrame ==
    [][\A t \in Tasks :
        (/\ task[t].kind = "search" /\ task[t].pc \in {"s_locked", "s_snap"}
         /\ ~task[t].due /\ task'[t] # task[t]) =>
            /\ UNCHANGED <<AST_CACHE, ARTICLE_CACHE, BUSY_ASTS, LAST_REAL_SEARCH>>
            /\ ~task'[t].ranA /\ ~task'[t].ranB
            /\ task'[t].pc \in {"s_snap", "done"}
            /\ task'[t].pc = "done" =>
                /\ Unwrap(task'[t].result).ok
                /\ Unwrap(task'[t].index).how = "cache"
                /\ LET hits == Value(Unwrap(task'[t].result))
                   IN  \A i \in 1 .. Len(hits) :
                        \E p \in DOMAIN AST_CACHE :
                            /\ IsSome(AST_CACHE[p])
                            /\ hits[i].path = StripPrefix(p)
                            /\ hits[i].meta = Unwrap(AST_CACHE[p]).meta
      ]_vars

\* a search has been answered from the cache, half a window after the walk
\* that filled it
C32_Witness ==
    \E t \in Tasks :
        /\ Searched(t) /\ ~task[t].due
        /\ Unwrap(task[t].index).how = "cache"
        /\ Len(Hits(t)) > 0
        /\ instant - LAST_REAL_SEARCH = ThrottleWindow \div 2

---------------------------------------------------------------------------
\* Changes during a render, and failed renders

\* C34: an entry that the freshness tests of get_metadata (line 156) and
\* get_article (line 99) take as fresh for the file on disk was made from the
\* file's present content: the tree from the present version, the HTML from
\* the present version.
C34_NoLostUpdate ==
    \A p \in Paths :
        IsSome(disk[p]) =>
            /\ (IsSome(AST_CACHE[p]) /\ Unwrap(AST_CACHE[p]).time >= Unwrap(disk[p]).ver) =>
                    Unwrap(AST_CACHE[p]).ast.ver = Unwrap(disk[p]).ver
            /\ (IsSome(ARTICLE_CACHE[p])
                    /\ Unwrap(ARTICLE_CACHE[p]).rendered_at >= Unwrap(disk[p]).ver) =>
                    Unwrap(ARTICLE_CACHE[p]).content.html_of = Unwrap(disk[p]).ver

\* C35: a call that needs a render of a file the converter accepts, while no
\* other call is in progress, runs Stage A.
C35_NoPoison ==
    [][\A t \in Tasks :
        (/\ task[t].pc = "pr_busy" /\ task'[t] # task[t]
         /\ Renderable(disk[task[t].path])
         /\ \A u \in Tasks \ {t} : task[u].pc \in {"idle", "done"}) =>
            task'[t].pc = "stageA"
      ]_vars

---------------------------------------------------------------------------
\* Walks next to renders, and deleted files

\* the paths of the result of t's search, as they are on disk
HitPaths(tk) ==
    LET hits == Value(Unwrap(tk.result))
    IN  {p \in DOMAIN disk : \E i \in 1 .. Len(hits) : hits[i].path = StripPrefix(p)}

\* C36 as stated: the result of a walk holds every file under the root that
\* the converter accepts (every document here is published, not hidden, and
\* meets the default criteria).
C36_WalkComplete ==
    [][\A t \in Tasks :
        (task[t].pc = "s_walk" /\ task'[t].pc = "done") =>
            /\ Unwrap(task'[t].result).ok
            /\ \A p \in DOMAIN disk : Renderable(disk[p]) => p \in HitPaths(task'[t])
      ]_vars

\* C36 (amended): the result of a walk holds a file that the converter accepts
\* exactly when its path is not in BUSY_ASTS or a tree of it is cached; a
\* document whose path is in BUSY_ASTS is listed with the metadata cached.
C36_WalkSkipsFirstRenders ==
    [][\A t \in Tasks :
        (task[t].pc = "s_walk" /\ task'[t].pc = "done") =>
            /\ Unwrap(task'[t].result).ok
            /\ \A p \in DOMAIN disk :
                Renderable(disk[p]) =>
                    /\ p \in HitPaths(task'[t]) <=>
                            (p \notin BUSY_ASTS \/ IsSome(AST_CACHE[p]))
                    /\ (p \in BUSY_ASTS /\ IsSome(AST_CACHE[p])) =>
                            \E a \in Unwrap(task'[t].index).articles :
                                a.path = p /\ a.meta = Unwrap(AST_CACHE[p]).meta
      ]_vars

\* a walk has passed over a document that a call was rendering for the first
\* time, and has listed the other
C36_Witness ==
    \E t \in Tasks, u \in Tasks :
        LET a == <<"articles", "a.md">>
            b == <<"articles", "d", "b.md">>
        IN  /\ Searched(t) /\ Walks(t) /\ Unwrap(task[t].result).ok
            /\ task[u].kind = "article" /\ task[u].pc = "stageA" /\ task[u].path = b
            /\ ~IsSome(AST_CACHE[b]) /\ Renderable(disk[b])
            /\ HitPaths(task[t]) = {a}
            /\ b \in Unwrap(task[t].index).files

\* C37: the result of a walk lists no file that is not on disk; and once a walk
\* has run on a disk without the file p, p being gone since, no search lists p,
\* from the disk or from the cache.
C37_DeletedNotListed ==
    [][\A u \in Tasks :
        (/\ task[u].pc \in {"s_walk", "s_snap"} /\ task'[u].pc = "done"
         /\ Unwrap(task'[u].result).ok) =>
            \A p \in DOMAIN disk :
                /\ (task[u].pc = "s_walk" /\ ~IsSome(disk[p])) => p \notin HitPaths(task'[u])
                /\ (/\ ~IsSome(disk[p])
                    /\ \E t \in Tasks \ {u} :
                            /\ Searched(t) /\ Walks(t)
                            /\ p \notin Unwrap(task[t].index).files) =>
                        p \notin HitPaths(task'[u])
      ]_vars

---------------------------------------------------------------------------
\* Searches embedded in documents

\* the records of t that are in a walk, and those that are in Stage A
WalkFrames(t) == {i \in 1 .. Len(Frames(t)) : Frames(t)[i].pc \in {"s_walk", "s_walking"}}
StageAFrames(t) == {i \in 1 .. Len(Frames(t)) : Frames(t)[i].pc = "stageA"}

\* no path is in Stage A twice among the records of t
NoRerenderInFlight(t) ==
    \A i, j \in StageAFrames(t) : Frames(t)[i].path = Frames(t)[j].path => i = j

\* no caller of t waits with the guard of LAST_REAL_SEARCH in its hands
NoGuardOnStack(t) ==
    \A i \in 1 .. Len(task[t].stack) : task[t].stack[i].held = {}

\* the calls of t are nested no deeper than a render and a search per document
\* under the call of the handler
DepthBounded(t) == Len(Frames(t)) <= 2 * Cardinality(DOMAIN disk) + 1

Returned(t) == task[t].stack = <<>> /\ task[t].pc \in {"idle", "done"}

\* C33 as stated: every call returns; its nested calls are bounded in depth, no
\* path that is in Stage A is put into Stage A again, no waiting caller holds
\* the mutex, and a search run inside a walk does not walk.
C33_NoNestedWalk ==
    /\ [](\A t \in NestedTasks :
            /\ DepthBounded(t) /\ NoRerenderInFlight(t) /\ NoGuardOnStack(t)
            /\ Cardinality(WalkFrames(t)) <= 1)
    /\ \A t \in NestedTasks : ~Returned(t) ~> Returned(t)

\* C33 (amended): the same, a search run inside a walk walking only when its
\* test came more than the throttle window after the test of the walk around
\* it.
C33_Terminates ==
    /\ [](\A t \in NestedTasks :
            /\ DepthBounded(t) /\ NoRerenderInFlight(t) /\ NoGuardOnStack(t)
            /\ \A i, j \in WalkFrames(t) :
                    i < j => Unwrap(Frames(t)[i].at) - Unwrap(Frames(t)[j].at) > ThrottleWindow)
    /\ \A t \in NestedTasks : ~Returned(t) ~> Returned(t)

\* the render of a document that embeds a search has returned its article, the
\* walk of its search having come to the document itself and to another that
\* embeds a search
C33_Witness ==
    \E t \in NestedTasks :
        LET a == <<"articles", "a.md">>
            b == <<"articles", "d", "b.md">>
        IN  /\ Returned(t) /\ task[t].kind = "article" /\ task[t].path = a
            /\ Unwrap(task[t].result).ok /\ task[t].filtered
            /\ Unwrap(disk[a]).kind = "embed" /\ Unwrap(disk[b]).kind = "embed"
            /\ IsSome(AST_CACHE[b]) /\ IsSome(ARTICLE_CACHE[a])
            /\ BUSY_ASTS = {}
            /\ calls = 1

====
